---- MODULE Spec2Model ----
(***************************************************************************)
(* State-machine model of the crawl engine of crawl_site.py: the URL       *)
(* safety validator, the link classifier, the page fetcher wrapper and the *)
(* breadth-first crawl loop of main() with its manifest and exit paths.    *)
(*                                                                         *)
(* A URL string is held in the form urlparse() gives it: a record of       *)
(* scheme, netloc, path, query and fragment.  A path is the sequence of    *)
(* its "/" separators and its segments, so "/about/" is                    *)
(* <<"/", "about", "/">> and the empty path is <<>>.  Every URL of the     *)
(* model is one that urlparse() and geturl() map back to itself.           *)
(***************************************************************************)
EXTENDS Integers, Sequences, FiniteSets, TLC

VARIABLES
    target_url_raw,           \* args.url
    max_pages,                \* args.max_pages
    crawl_depth,              \* args.depth
    target_url,               \* the normalized seed
    base_netloc,              \* netloc of the normalized seed
    pc,                       \* where main() is: setup, loop, or how it ended
    visited_path_query,       \* set of fragment-stripped URLs crawled
    to_visit_queue,           \* sequence of [url, depth]
    pages_crawled_count,
    queued_path_query_depth,  \* set of <<key, depth>> ever enqueued
    page_dirs,                \* the page folders that exist in site_dir
    files,                    \* the artifacts in them: [folder, name, url]
    manifest,                 \* <<>> or <<the manifest written>>
    driver_open,              \* the WebDriver session exists and is not quit
    exit_code,                \* <<>> while running, <<code>> once exited
    last,                     \* the last call of get_page_content
    gets,                     \* the driver.get calls so far, in order: [url, depth, kind]
    probe,                    \* the last call made by a function harness
    cwd,                      \* the working directory: each site directory in it
                              \* and the runs that wrote into it
    runs                      \* concurrent runs in get_site_output_dir and after

vars == <<target_url_raw, max_pages, crawl_depth, target_url, base_netloc, pc,
          visited_path_query, to_visit_queue, pages_crawled_count,
          queued_path_query_depth, page_dirs, files, manifest, driver_open,
          exit_code, last, gets, probe, cwd, runs>>

----------------------------------------------------------------------------
(* Bounds of the model *)

MaxPagesBound == 4

MaxDepthBound == 3

----------------------------------------------------------------------------
(* URLs *)

URL(s, n, p, q, f) ==
    [scheme |-> s, netloc |-> n, path |-> p, query |-> q, fragment |-> f]

NoUrl == URL("", "", <<>>, "", "")

\* str.rstrip('/') on a path
RECURSIVE RStripSlash(_)
RStripSlash(p) ==
    IF p = <<>> THEN p
    ELSE IF p[Len(p)] = "/" THEN RStripSlash(SubSeq(p, 1, Len(p) - 1))
    ELSE p

\* Mutant of StripFragment: the key keeps the fragment
StripFragmentKept(u) == u

\* parsed._replace(fragment="").geturl(): the key used for uniqueness
StripFragment(u) == [u EXCEPT !.fragment = ""]

\* urljoin(base, href) for a base with a scheme and a netloc, and an href whose
\* path is empty or absolute
urljoin(base, href) ==
    IF href = NoUrl THEN base
    ELSE IF href.scheme # "" /\ href.scheme # base.scheme THEN href
    ELSE IF href.netloc # "" THEN [href EXCEPT !.scheme = base.scheme]
    ELSE IF href.path = <<>>
         THEN URL(base.scheme, base.netloc, base.path,
                  IF href.query = "" THEN base.query ELSE href.query,
                  href.fragment)
         ELSE URL(base.scheme, base.netloc, href.path, href.query, href.fragment)

\* urlparse(url).hostname: None (here "") when the URL has no netloc
Hostname(u) == u.netloc

----------------------------------------------------------------------------
(* URL safety validator *)

\* An IPv4 address is the tuple of its four octets; a DNS answer is the
\* address socket.gethostbyname() returns, or its failure.
Resolved(ip) == [ok |-> TRUE, ip |-> ip]

DnsFailure == [ok |-> FALSE, ip |-> <<0, 0, 0, 0>>]

Pow2(n) == CASE n = 0 -> 1 [] n = 1 -> 2 [] n = 2 -> 4 [] n = 3 -> 8 [] n = 4 -> 16
             [] n = 5 -> 32 [] n = 6 -> 64 [] n = 7 -> 128 [] OTHER -> 256

\* number of the prefix's bits that fall in octet i
PrefixBits(len, i) ==
    LET left == len - 8 * (i - 1) IN
    IF left <= 0 THEN 0 ELSE IF left >= 8 THEN 8 ELSE left

\* ip_obj in IPv4Network(net/len)
InNetwork(ip, net, len) ==
    \A i \in 1..4 :
        ip[i] \div Pow2(8 - PrefixBits(len, i)) = net[i] \div Pow2(8 - PrefixBits(len, i))

\* ipaddress.IPv4Address.is_private
is_private(ip) ==
    \/ InNetwork(ip, <<0, 0, 0, 0>>, 8)
    \/ InNetwork(ip, <<10, 0, 0, 0>>, 8)
    \/ InNetwork(ip, <<127, 0, 0, 0>>, 8)
    \/ InNetwork(ip, <<169, 254, 0, 0>>, 16)
    \/ InNetwork(ip, <<172, 16, 0, 0>>, 12)
    \/ InNetwork(ip, <<192, 0, 0, 0>>, 29)
    \/ InNetwork(ip, <<192, 0, 0, 170>>, 31)
    \/ InNetwork(ip, <<192, 0, 2, 0>>, 24)
    \/ InNetwork(ip, <<192, 168, 0, 0>>, 16)
    \/ InNetwork(ip, <<198, 18, 0, 0>>, 15)
    \/ InNetwork(ip, <<198, 51, 100, 0>>, 24)
    \/ InNetwork(ip, <<203, 0, 113, 0>>, 24)
    \/ InNetwork(ip, <<240, 0, 0, 0>>, 4)
    \/ InNetwork(ip, <<255, 255, 255, 255>>, 32)

is_loopback(ip) == InNetwork(ip, <<127, 0, 0, 0>>, 8)

is_reserved(ip) == InNetwork(ip, <<240, 0, 0, 0>>, 4)

is_link_local(ip) == InNetwork(ip, <<169, 254, 0, 0>>, 16)

is_multicast(ip) == InNetwork(ip, <<224, 0, 0, 0>>, 4)

is_unspecified(ip) == ip = <<0, 0, 0, 0>>

\* The second group of checks of is_safe_url, on the textual address
RestrictedIp(ip) ==
    \/ is_link_local(ip)
    \/ (ip[1] = 169 /\ ip[2] = 254)      \* str(ip_obj).startswith('169.254.')
    \/ ip[1] = 224                       \* str(ip_obj).startswith('224.')
    \/ ip = <<0, 0, 0, 0>>               \* str(ip_obj) == '0.0.0.0'

is_safe_url(url, dns) ==
    IF Hostname(url) = "" THEN FALSE
    ELSE IF ~dns.ok THEN FALSE
    ELSE IF is_private(dns.ip) \/ is_loopback(dns.ip) \/ is_reserved(dns.ip) THEN FALSE
    ELSE IF RestrictedIp(dns.ip) THEN FALSE
    ELSE TRUE

----------------------------------------------------------------------------
(* Link classifier *)

\* Mutant of is_internal_link: the scheme is not tested
is_internal_link_any_scheme(href, netloc) ==
    IF href = NoUrl \/ href.scheme = "mailto" \/ href.scheme = "tel" THEN FALSE
    ELSE IF href.netloc # "" /\ href.netloc # netloc THEN FALSE
    ELSE TRUE

is_internal_link(href, netloc) ==
    IF href = NoUrl \/ href.scheme = "mailto" \/ href.scheme = "tel" THEN FALSE
    ELSE IF href.scheme # "" /\ href.scheme \notin {"http", "https"} THEN FALSE
    ELSE IF href.netloc # "" /\ href.netloc # netloc THEN FALSE
    ELSE TRUE

----------------------------------------------------------------------------
(* Page fetcher wrapper *)

\* The document a page load yields: page_source, reduced to the hrefs of its
\* <a> elements in document order.  NoHtml is Python's None.
NoHtml == [some |-> FALSE, links |-> <<>>]

Html(links) == [some |-> TRUE, links |-> links]

\* Mutant of get_page_content: the verdict of is_safe_url is computed but the
\* page is loaded whatever it says
get_page_content_unchecked(url, dns, load, parse, page) ==
    IF load # "ok"
    THEN [arity |-> 4, html |-> NoHtml, accepted |-> is_safe_url(url, dns),
          got |-> TRUE, kind |-> load, extracted |-> "none"]
    ELSE IF parse # "ok"
    THEN [arity |-> 5, html |-> NoHtml, accepted |-> is_safe_url(url, dns),
          got |-> TRUE, kind |-> "parse_error", extracted |-> "empty"]
    ELSE [arity |-> 5, html |-> page, accepted |-> is_safe_url(url, dns),
          got |-> TRUE, kind |-> "ok", extracted |-> "from_document"]

\* get_page_content(driver, url).  dns is what the resolver answers, load is
\* how driver.get(url) ends, parse is how reading and parsing page_source ends,
\* page is the document the browser holds.  The result carries the length of
\* the returned tuple (arity), its first element (html), whether is_safe_url
\* accepted the URL, whether driver.get was invoked, and what the images, text,
\* css_files and inline_styles returned are: absent ("none"), the empty
\* collections ("empty"), or what was extracted ("from_document").
get_page_content(url, dns, load, parse, page) ==
    IF ~is_safe_url(url, dns)
    THEN [arity |-> 4, html |-> NoHtml, accepted |-> FALSE, got |-> FALSE,
          kind |-> "unsafe", extracted |-> "none"]
    ELSE IF load # "ok"
    THEN [arity |-> 4, html |-> NoHtml, accepted |-> TRUE, got |-> TRUE,
          kind |-> load, extracted |-> "none"]
    ELSE IF parse # "ok"
    THEN [arity |-> 5, html |-> NoHtml, accepted |-> TRUE, got |-> TRUE,
          kind |-> "parse_error", extracted |-> "empty"]
    ELSE [arity |-> 5, html |-> page, accepted |-> TRUE, got |-> TRUE,
          kind |-> "ok", extracted |-> "from_document"]

----------------------------------------------------------------------------
(* Output path resolver and persistence writer *)

\* The segments of a path: path.split('/') without the empty parts
Segments(path) == SelectSeq(path, LAMBDA t : t # "/")

\* Lines 194-204 on a last path segment: a common extension is cut off, then
\* every character outside [A-Za-z0-9_-] becomes "_", runs of "_" collapse
\* and leading and trailing "_" go.  Given for the segments of the model; its
\* other segments are words of [A-Za-z0-9-], which both steps leave alone.
SanitizeSegment(seg) ==
    LET without_extension ==
            CASE seg = "about.html" -> "about"
              [] seg = "about.php" -> "about"
              [] seg = ".html" -> ""
              [] OTHER -> seg
    IN CASE without_extension = "a.b" -> "a_b"
         [] without_extension = "..." -> ""
         [] without_extension = "_about_" -> "about"
         [] OTHER -> without_extension

\* Mutant of url_to_folder_name: no suffix is added for the query
url_to_folder_name_no_query_suffix(url, base) ==
    LET normalized_url_path == RStripSlash(url.path)
        normalized_base_url_path == RStripSlash(base.path)
        path_segments == Segments(normalized_url_path)
        stem == IF normalized_url_path = normalized_base_url_path
                   \/ normalized_url_path = <<>>
                THEN "home"
                ELSE IF path_segments = <<>> THEN "root_page"
                ELSE SanitizeSegment(path_segments[Len(path_segments)])
    IN [stem |-> IF stem = "" THEN "page_" ELSE stem,
        url_md5_of |-> IF stem = "" THEN url ELSE NoUrl,
        query_md5_of |-> ""]

\* url_to_folder_name(url_str, base_url_str).  A folder name is held as its
\* stem and what the two md5 suffixes are computed from: the URL when the
\* sanitized stem is empty, the query when the URL has one.
url_to_folder_name(url, base) ==
    LET normalized_url_path == RStripSlash(url.path)
        normalized_base_url_path == RStripSlash(base.path)
        path_segments == Segments(normalized_url_path)
        stem == IF normalized_url_path = normalized_base_url_path
                   \/ normalized_url_path = <<>>
                THEN "home"
                ELSE IF path_segments = <<>> THEN "root_page"
                ELSE SanitizeSegment(path_segments[Len(path_segments)])
    IN [stem |-> IF stem = "" THEN "page_" ELSE stem,
        url_md5_of |-> IF stem = "" THEN url ELSE NoUrl,
        query_md5_of |-> url.query]

\* The five artifacts in the order save_page_data writes them
Artifacts == <<"url.txt", "page.html", "copy.txt", "images.txt", "css.txt">>

\* Where a save can fail: nowhere, at os.makedirs, or at one of the artifacts
SaveFailures == {"none", "makedirs", "copy.txt"}

\* Mutant of WrittenArtifacts: each write has its own try block, so every
\* artifact but the failing one is written
WrittenArtifactsBestEffort(fail_at) ==
    {Artifacts[i] : i \in {j \in DOMAIN Artifacts : Artifacts[j] # fail_at}}

\* The artifacts written before the failure point: all of them when nothing
\* fails, else those that precede the failing one (one try block holds the
\* five writes)
WrittenArtifacts(fail_at) ==
    IF fail_at = "none" THEN {Artifacts[i] : i \in DOMAIN Artifacts}
    ELSE {Artifacts[i] : i \in {j \in DOMAIN Artifacts :
                                   \E k \in DOMAIN Artifacts :
                                       Artifacts[k] = fail_at /\ j < k}}

\* save_page_data(site_dir, folder_name, url, ...): the folders and files of
\* site_dir afterwards, and the value returned
save_page_data(dirs, fs, folder_name, url, fail_at) ==
    IF fail_at = "makedirs"
    THEN [ok |-> FALSE, dirs |-> dirs, files |-> fs]
    ELSE [ok |-> fail_at = "none",
          dirs |-> dirs \cup {folder_name},
          files |-> {f \in fs : ~(f.folder = folder_name
                                   /\ f.name \in WrittenArtifacts(fail_at))}
                    \cup {[folder |-> folder_name, name |-> a, url |-> url] :
                              a \in WrittenArtifacts(fail_at)}]

----------------------------------------------------------------------------
(* Site output directory *)

\* domain.replace(':', '_').replace('.', '_') on the hosts of the model
SanitizeDomain(domain) ==
    CASE domain = "example.com" -> "example_com"
      [] domain = "example.com:8080" -> "example_com_8080"
      [] OTHER -> domain

\* A directory name: base_dir itself (count 0) or f"{base_dir}_{count}"
DirName(base_dir, count) == [base |-> base_dir, count |-> count]

\* The runs that go through get_site_output_dir at the same time
Runs == {1, 2}

\* A run that finished before these started, the writer of the directories
\* that exist at the start
EarlierRun == 0

NoDirs == [d \in {} |-> {}]

NotStarted == [pc |-> "not_started", base_dir |-> "", output_dir |-> DirName("", 0),
               count |-> 0, fresh |-> FALSE]

----------------------------------------------------------------------------
(* Inputs: the command line, the site, the resolver *)

MaxPagesArgs == (-1)..MaxPagesBound      \* --max_pages is any int

DepthArgs == 0..MaxDepthBound            \* --depth is any int

SeedSlashQueryFragment == URL("https", "example.com", <<"/">>, "q=1", "top")

SeedNoScheme == URL("", "", <<"example.com">>, "", "")

SeedArgs == {SeedSlashQueryFragment, SeedNoScheme}

HAbout == URL("", "", <<"/", "about">>, "", "")

HAboutSlash == URL("", "", <<"/", "about", "/">>, "", "")

HAboutTop == URL("", "", <<"/", "about">>, "", "top")

HContact == URL("", "", <<"/", "contact">>, "", "")

HRoot == URL("", "", <<"/">>, "", "")

HExternal == URL("https", "other.com", <<"/", "about">>, "", "")

HHostless == URL("http", "", <<"/", "admin">>, "", "")

HMailto == URL("mailto", "", <<"team@example.com">>, "", "")

HTeamAbout == URL("", "", <<"/", "team", "/", "about">>, "", "")

\* The documents a page load can yield, as the hrefs of their <a> elements
\* (a browser's page_source is never the empty string)
Pages ==
    { Html(<<>>),
      Html(<<HAbout, HAboutSlash, HContact, HMailto>>),
      Html(<<HAboutTop, HExternal, HMailto>>),
      Html(<<HTeamAbout, HHostless, HRoot>>) }

PublicIp == <<93, 184, 216, 34>>

LinkLocalIp == <<169, 254, 169, 254>>

DnsAnswers == {DnsFailure, Resolved(PublicIp), Resolved(LinkLocalIp)}

LoadResults == {"ok", "timeout", "load_error"}

ParseResults == {"ok", "raises"}

----------------------------------------------------------------------------
(* main(): argument handling and setup *)

NoCall == [n |-> 0, url |-> NoUrl, depth |-> 0, dns |-> DnsFailure, kind |-> "none",
           accepted |-> FALSE, got |-> FALSE, links |-> 0, save |-> "not_called",
           extracted |-> "none"]

NoProbe == [url |-> NoUrl, dns |-> DnsFailure, called |-> FALSE, result |-> FALSE]

\* target_url: the seed without query and fragment, right-stripped of "/"
NormalizeSeed(raw) ==
    LET t == [raw EXCEPT !.fragment = "", !.query = "", !.path = RStripSlash(@)] IN
    IF t = NoUrl
    THEN [raw EXCEPT !.fragment = "", !.query = "", !.path = RStripSlash(<<"/">>)]
    ELSE t

ValidSeed(u) == u.scheme # "" /\ u.netloc # ""

Init ==
    /\ target_url_raw \in SeedArgs
    /\ max_pages \in MaxPagesArgs
    /\ crawl_depth \in DepthArgs
    /\ target_url = NoUrl
    /\ base_netloc = ""
    /\ pc = "setup"
    /\ visited_path_query = {}
    /\ to_visit_queue = <<>>
    /\ pages_crawled_count = 0
    /\ queued_path_query_depth = {}
    /\ page_dirs = {}
    /\ files = {}
    /\ manifest = <<>>
    /\ driver_open = FALSE
    /\ exit_code = <<>>
    /\ last = NoCall
    /\ gets = <<>>
    /\ probe = NoProbe
    /\ cwd = NoDirs
    /\ runs = [r \in Runs |-> NotStarted]

\* Lines 279-305: the seed does not parse to a scheme and a netloc: exit 1
SetupInvalidUrl ==
    /\ pc = "setup"
    /\ ~ValidSeed(NormalizeSeed(target_url_raw))
    /\ target_url' = NormalizeSeed(target_url_raw)
    /\ pc' = "setup_failed"
    /\ exit_code' = <<1>>
    /\ UNCHANGED <<target_url_raw, max_pages, crawl_depth, base_netloc,
                   visited_path_query, to_visit_queue, pages_crawled_count,
                   queued_path_query_depth, page_dirs, files, manifest, driver_open, last, gets, probe, cwd, runs>>

\* Lines 307-308: get_site_output_dir or setup_driver calls sys.exit(1)
SetupResourceFailure ==
    /\ pc = "setup"
    /\ ValidSeed(NormalizeSeed(target_url_raw))
    /\ target_url' = NormalizeSeed(target_url_raw)
    /\ base_netloc' = target_url'.netloc
    /\ pc' = "setup_failed"
    /\ exit_code' = <<1>>
    /\ UNCHANGED <<target_url_raw, max_pages, crawl_depth,
                   visited_path_query, to_visit_queue, pages_crawled_count,
                   queued_path_query_depth, page_dirs, files, manifest, driver_open, last, gets, probe, cwd, runs>>

\* Lines 279-317: setup succeeds and the crawl state is initialised
Setup ==
    /\ pc = "setup"
    /\ ValidSeed(NormalizeSeed(target_url_raw))
    /\ target_url' = NormalizeSeed(target_url_raw)
    /\ base_netloc' = target_url'.netloc
    /\ driver_open' = TRUE
    /\ visited_path_query' = {}
    /\ to_visit_queue' = <<[url |-> target_url', depth |-> 1]>>
    /\ pages_crawled_count' = 0
    /\ queued_path_query_depth' = {<<target_url', 1>>}
    /\ pc' = "loop"
    /\ UNCHANGED <<target_url_raw, max_pages, crawl_depth, page_dirs, files, manifest, exit_code,
                   last, gets, probe, cwd, runs>>

----------------------------------------------------------------------------
(* main(): the crawl loop *)

\* Mutant of LoopCondition: the page budget is not tested
LoopConditionNoBudget == to_visit_queue # <<>>

\* Mutant of LoopCondition: the budget test is off by one
LoopConditionOffByOne == to_visit_queue # <<>> /\ pages_crawled_count <= max_pages

\* Line 323: the while condition
LoopCondition == to_visit_queue # <<>> /\ pages_crawled_count < max_pages

\* Mutant of AlreadyProcessed: the visited test at dequeue is lost
AlreadyProcessedNever(key, visited) == FALSE

\* Line 330: the content of this key was already processed
AlreadyProcessed(key, visited) == key \in visited

\* Mutant of BeyondMaxDepth: the depth test at dequeue is lost
BeyondMaxDepthNever(depth, max_depth) == FALSE

\* Line 334
BeyondMaxDepth(depth, max_depth) == depth > max_depth

\* Mutant of Enqueueable: the queued set is not consulted
EnqueueableIgnoresQueued(absolute_link, depth, visited, queued, netloc) ==
    /\ is_internal_link(absolute_link, netloc)
    /\ StripFragment(absolute_link) \notin visited

\* Lines 365-367: the condition under which a discovered link is enqueued
Enqueueable(absolute_link, depth, visited, queued, netloc) ==
    /\ is_internal_link(absolute_link, netloc)
    /\ StripFragment(absolute_link) \notin visited
    /\ <<StripFragment(absolute_link), depth>> \notin queued

\* Mutant of DiscoverLinks: a discovered link is put at the front of the queue
RECURSIVE DiscoverLinksLifo(_, _, _, _, _, _, _)
DiscoverLinksLifo(links, key, depth, queue, queued, visited, netloc) ==
    IF links = <<>> THEN [queue |-> queue, queued |-> queued]
    ELSE LET absolute_link == urljoin(key, Head(links))
             add == Enqueueable(absolute_link, depth + 1, visited, queued, netloc)
         IN DiscoverLinksLifo(
                Tail(links), key, depth,
                IF add THEN <<[url |-> absolute_link, depth |-> depth + 1]>> \o queue
                       ELSE queue,
                IF add THEN queued \cup {<<StripFragment(absolute_link), depth + 1>>}
                       ELSE queued,
                visited, netloc)

\* Lines 357-371: the loop over the <a href> elements of a crawled page.
\* Gives the queue and the queued set after the links were handled in order.
RECURSIVE DiscoverLinks(_, _, _, _, _, _, _)
DiscoverLinks(links, key, depth, queue, queued, visited, netloc) ==
    IF links = <<>> THEN [queue |-> queue, queued |-> queued]
    ELSE LET absolute_link == urljoin(key, Head(links))
             add == Enqueueable(absolute_link, depth + 1, visited, queued, netloc)
         IN DiscoverLinks(
                Tail(links), key, depth,
                IF add THEN Append(queue, [url |-> absolute_link, depth |-> depth + 1])
                       ELSE queue,
                IF add THEN queued \cup {<<StripFragment(absolute_link), depth + 1>>}
                       ELSE queued,
                visited, netloc)

\* Mutant of SearchesLinks: links are searched on pages at the depth limit too
SearchesLinksInclusive(depth, max_depth) == depth <= max_depth

\* Line 353: links are searched only on pages above the depth limit
SearchesLinks(depth, max_depth) == depth < max_depth

Current == Head(to_visit_queue)

CurrentKey == StripFragment(Current.url)

\* The popped target passes both skip tests and is handed to get_page_content
Fetchable ==
    /\ pc = "loop"
    /\ LoopCondition
    /\ ~AlreadyProcessed(CurrentKey, visited_path_query)
    /\ ~BeyondMaxDepth(Current.depth, crawl_depth)

\* What is remembered of a get_page_content call: its number, its argument,
\* the resolver's answer, how it ended, what it did, the number of <a href>
\* elements of the document it returned, and where the save_page_data call
\* that followed it failed ("not_called" when there was none)
CallRecord(r, dns) ==
    [n |-> last.n + 1, url |-> CurrentKey, depth |-> Current.depth, dns |-> dns,
     kind |-> r.kind, accepted |-> r.accepted, got |-> r.got,
     links |-> Len(r.html.links), save |-> "not_called", extracted |-> r.extracted]

GetsAfter(r) ==
    IF r.got
    THEN Append(gets, [url |-> CurrentKey, depth |-> Current.depth, kind |-> r.kind])
    ELSE gets

\* Mutant of SkipVisited: the skipped target is put back at the end of the
\* queue
SkipVisitedRequeues ==
    /\ pc = "loop"
    /\ LoopCondition
    /\ AlreadyProcessed(CurrentKey, visited_path_query)
    /\ to_visit_queue' = Append(Tail(to_visit_queue), Current)
    /\ UNCHANGED <<target_url_raw, max_pages, crawl_depth, target_url, base_netloc, pc,
                   visited_path_query, pages_crawled_count, queued_path_query_depth,
                   page_dirs, files, manifest, driver_open, exit_code, last, gets, probe, cwd, runs>>

\* Lines 324-332: the popped target's key is already visited
SkipVisited ==
    /\ pc = "loop"
    /\ LoopCondition
    /\ AlreadyProcessed(CurrentKey, visited_path_query)
    /\ to_visit_queue' = Tail(to_visit_queue)
    /\ UNCHANGED <<target_url_raw, max_pages, crawl_depth, target_url, base_netloc, pc,
                   visited_path_query, pages_crawled_count, queued_path_query_depth,
                   page_dirs, files, manifest, driver_open, exit_code, last, gets, probe, cwd, runs>>

\* Lines 324-336: the popped target is deeper than the depth limit
SkipDepth ==
    /\ pc = "loop"
    /\ LoopCondition
    /\ ~AlreadyProcessed(CurrentKey, visited_path_query)
    /\ BeyondMaxDepth(Current.depth, crawl_depth)
    /\ to_visit_queue' = Tail(to_visit_queue)
    /\ UNCHANGED <<target_url_raw, max_pages, crawl_depth, target_url, base_netloc, pc,
                   visited_path_query, pages_crawled_count, queued_path_query_depth,
                   page_dirs, files, manifest, driver_open, exit_code, last, gets, probe, cwd, runs>>

\* Lines 324-376: the load and the parse succeed and get_page_content returns
\* a document; the page is counted, saved, and its links are enqueued
CrawlPage ==
    /\ Fetchable
    /\ \E dns \in DnsAnswers, page \in Pages, fail_at \in SaveFailures :
         LET r == get_page_content(CurrentKey, dns, "ok", "ok", page)
             visited == visited_path_query \cup {CurrentKey}
             saved == save_page_data(page_dirs, files,
                                     url_to_folder_name(Current.url, target_url),
                                     Current.url, fail_at)
             found == IF SearchesLinks(Current.depth, crawl_depth)
                      THEN DiscoverLinks(r.html.links, CurrentKey, Current.depth,
                                         Tail(to_visit_queue), queued_path_query_depth,
                                         visited, base_netloc)
                      ELSE [queue |-> Tail(to_visit_queue),
                            queued |-> queued_path_query_depth]
         IN /\ r.arity = 5
            /\ r.html.some
            /\ visited_path_query' = visited
            /\ pages_crawled_count' = pages_crawled_count + 1
            /\ page_dirs' = saved.dirs
            /\ files' = saved.files
            /\ to_visit_queue' = found.queue
            /\ queued_path_query_depth' = found.queued
            /\ last' = [CallRecord(r, dns) EXCEPT !.save = fail_at]
            /\ gets' = GetsAfter(r)
    /\ UNCHANGED <<target_url_raw, max_pages, crawl_depth, target_url, base_netloc, pc,
                   manifest, driver_open, exit_code, probe, cwd, runs>>

\* Mutant of ContentFailure: the parse exception is not caught and ends the
\* run through the handler of Exception
ContentFailureAborts ==
    /\ Fetchable
    /\ \E dns \in DnsAnswers, parse \in ParseResults \ {"ok"} :
         LET r == get_page_content(CurrentKey, dns, "ok", parse, NoHtml)
         IN /\ r.arity = 5
            /\ ~r.html.some
            /\ to_visit_queue' = Tail(to_visit_queue)
            /\ last' = CallRecord(r, dns)
            /\ gets' = GetsAfter(r)
    /\ pc' = "crashed"
    /\ exit_code' = <<1>>
    /\ driver_open' = FALSE
    /\ UNCHANGED <<target_url_raw, max_pages, crawl_depth, target_url, base_netloc,
                   visited_path_query, pages_crawled_count, queued_path_query_depth,
                   page_dirs, files, manifest, probe, cwd, runs>>

\* Lines 324-340, 377-378: get_page_content returns five values with no
\* document (reading or parsing page_source raised); logged, the loop goes on
ContentFailure ==
    /\ Fetchable
    /\ \E dns \in DnsAnswers, parse \in ParseResults \ {"ok"} :
         LET r == get_page_content(CurrentKey, dns, "ok", parse, NoHtml)
         IN /\ r.arity = 5
            /\ ~r.html.some
            /\ to_visit_queue' = Tail(to_visit_queue)
            /\ last' = CallRecord(r, dns)
            /\ gets' = GetsAfter(r)
    /\ UNCHANGED <<target_url_raw, max_pages, crawl_depth, target_url, base_netloc, pc,
                   visited_path_query, pages_crawled_count, queued_path_query_depth,
                   page_dirs, files, manifest, driver_open, exit_code, probe, cwd, runs>>

\* Mutant of UnpackError: sys.exit(1) ends the process before the finally
\* clause quits the driver
UnpackErrorLeavesDriverOpen ==
    /\ Fetchable
    /\ \E dns \in DnsAnswers, load \in LoadResults :
         LET r == get_page_content(CurrentKey, dns, load, "ok", NoHtml)
         IN /\ r.arity # 5
            /\ to_visit_queue' = Tail(to_visit_queue)
            /\ last' = CallRecord(r, dns)
            /\ gets' = GetsAfter(r)
    /\ pc' = "crashed"
    /\ exit_code' = <<1>>
    /\ UNCHANGED <<target_url_raw, max_pages, crawl_depth, target_url, base_netloc,
                   visited_path_query, pages_crawled_count, queued_path_query_depth,
                   page_dirs, files, manifest, driver_open, probe, cwd, runs>>

\* Mutant of UnpackError: the key is added to the visited set before the
\* fetch result is unpacked
UnpackErrorMarksVisited ==
    /\ Fetchable
    /\ \E dns \in DnsAnswers, load \in LoadResults :
         LET r == get_page_content(CurrentKey, dns, load, "ok", NoHtml)
         IN /\ r.arity # 5
            /\ to_visit_queue' = Tail(to_visit_queue)
            /\ last' = CallRecord(r, dns)
            /\ gets' = GetsAfter(r)
    /\ visited_path_query' = visited_path_query \cup {CurrentKey}
    /\ pc' = "crashed"
    /\ exit_code' = <<1>>
    /\ driver_open' = FALSE
    /\ UNCHANGED <<target_url_raw, max_pages, crawl_depth, target_url, base_netloc,
                   pages_crawled_count, queued_path_query_depth, page_dirs, files, manifest, probe, cwd, runs>>

\* Lines 324-340, 417-425: get_page_content returns four values (the URL was
\* rejected or the load failed); unpacking them into five names raises
\* ValueError, which the handler of Exception turns into sys.exit(1)
UnpackError ==
    /\ Fetchable
    /\ \E dns \in DnsAnswers, load \in LoadResults :
         LET r == get_page_content(CurrentKey, dns, load, "ok", NoHtml)
         IN /\ r.arity # 5
            /\ to_visit_queue' = Tail(to_visit_queue)
            /\ last' = CallRecord(r, dns)
            /\ gets' = GetsAfter(r)
    /\ pc' = "crashed"
    /\ exit_code' = <<1>>
    /\ driver_open' = FALSE
    /\ UNCHANGED <<target_url_raw, max_pages, crawl_depth, target_url, base_netloc,
                   visited_path_query, pages_crawled_count, queued_path_query_depth,
                   page_dirs, files, manifest, probe, cwd, runs>>

\* Mutant of manifest_data: the page list is taken from the queued set
manifest_data_queued ==
    [target_url |-> target_url,
     base_netloc |-> base_netloc,
     max_pages |-> max_pages,
     crawl_depth |-> crawl_depth,
     pages_crawled |-> pages_crawled_count,
     crawled_pages |-> {q[1] : q \in queued_path_query_depth},
     status |-> "completed"]

\* Lines 387-402: the manifest
manifest_data ==
    [target_url |-> target_url,
     base_netloc |-> base_netloc,
     max_pages |-> max_pages,
     crawl_depth |-> crawl_depth,
     pages_crawled |-> pages_crawled_count,
     crawled_pages |-> visited_path_query,
     status |-> "completed"]

\* Lines 380-412, 422-426: the loop has ended; the manifest is written (or
\* the write fails and is reported), the driver is quit, main returns
Finish ==
    /\ pc = "loop"
    /\ ~LoopCondition
    /\ \E write_ok \in BOOLEAN :
         manifest' = IF write_ok THEN <<manifest_data>> ELSE <<>>
    /\ pc' = "completed"
    /\ exit_code' = <<0>>
    /\ driver_open' = FALSE
    /\ UNCHANGED <<target_url_raw, max_pages, crawl_depth, target_url, base_netloc,
                   visited_path_query, to_visit_queue, pages_crawled_count,
                   queued_path_query_depth, page_dirs, files, last, gets, probe, cwd, runs>>

\* Mutant of Interrupt: the handler goes on to write the manifest
InterruptWritesManifest ==
    /\ pc = "loop"
    /\ pc' = "interrupted"
    /\ manifest' = <<manifest_data>>
    /\ exit_code' = <<0>>
    /\ driver_open' = FALSE
    /\ UNCHANGED <<target_url_raw, max_pages, crawl_depth, target_url, base_netloc,
                   visited_path_query, to_visit_queue, pages_crawled_count,
                   queued_path_query_depth, page_dirs, files, last, gets, probe, cwd, runs>>

\* Lines 414-416, 422-426: KeyboardInterrupt between two iterations
Interrupt ==
    /\ pc = "loop"
    /\ pc' = "interrupted"
    /\ exit_code' = <<0>>
    /\ driver_open' = FALSE
    /\ UNCHANGED <<target_url_raw, max_pages, crawl_depth, target_url, base_netloc,
                   visited_path_query, to_visit_queue, pages_crawled_count,
                   queued_path_query_depth, page_dirs, files, manifest, last, gets, probe, cwd, runs>>

\* Lines 324-340, 414-416: KeyboardInterrupt while the popped target is
\* being fetched; the fetch is abandoned
InterruptInFlight ==
    /\ Fetchable
    /\ to_visit_queue' = Tail(to_visit_queue)
    /\ pc' = "interrupted"
    /\ exit_code' = <<0>>
    /\ driver_open' = FALSE
    /\ UNCHANGED <<target_url_raw, max_pages, crawl_depth, target_url, base_netloc,
                   visited_path_query, pages_crawled_count,
                   queued_path_query_depth, page_dirs, files, manifest, last, gets, probe, cwd, runs>>

Next ==
    \/ SetupInvalidUrl
    \/ SetupResourceFailure
    \/ Setup
    \/ SkipVisited
    \/ SkipDepth
    \/ CrawlPage
    \/ ContentFailure
    \/ UnpackError
    \/ Finish
    \/ Interrupt
    \/ InterruptInFlight

Spec == Init /\ [][Next]_vars

\* main() keeps executing: a step that can be taken is taken, every fetch
\* returning (the page load is cut off after 30 s, line 78)
FairSpec == Spec /\ WF_vars(Next)

----------------------------------------------------------------------------
(* The URL safety validator on its own: is_safe_url applied to URLs with and *)
(* without a hostname and to resolver answers of every address class        *)

ProbeUrls ==
    { URL("https", "example.com", <<"/", "about">>, "", ""),
      URL("http", "intranet.example.com", <<>>, "", ""),
      URL("http", "", <<"/", "admin">>, "", "") }

ProbeIps ==
    { <<0, 0, 0, 0>>, <<0, 1, 2, 3>>, <<1, 1, 1, 1>>, <<8, 8, 8, 8>>,
      <<10, 0, 0, 1>>, <<10, 255, 255, 255>>, <<11, 0, 0, 1>>,
      <<93, 184, 216, 34>>, <<100, 64, 0, 1>>,
      <<127, 0, 0, 1>>, <<127, 255, 255, 254>>, <<128, 0, 0, 1>>,
      <<169, 253, 255, 255>>, <<169, 254, 0, 1>>, <<169, 254, 169, 254>>,
      <<169, 255, 0, 1>>,
      <<172, 15, 255, 255>>, <<172, 16, 0, 1>>, <<172, 31, 255, 255>>,
      <<172, 32, 0, 1>>,
      <<192, 0, 0, 1>>, <<192, 0, 0, 7>>, <<192, 0, 0, 8>>, <<192, 0, 0, 170>>,
      <<192, 0, 0, 171>>, <<192, 0, 0, 172>>, <<192, 0, 2, 1>>, <<192, 0, 3, 1>>,
      <<192, 167, 255, 255>>, <<192, 168, 1, 1>>, <<192, 169, 0, 1>>,
      <<198, 17, 255, 255>>, <<198, 18, 0, 1>>, <<198, 19, 255, 255>>,
      <<198, 20, 0, 1>>, <<198, 51, 100, 7>>, <<203, 0, 113, 9>>,
      <<223, 255, 255, 255>>, <<224, 0, 0, 1>>, <<224, 0, 0, 251>>,
      <<225, 0, 0, 1>>, <<232, 1, 1, 1>>, <<239, 255, 255, 250>>,
      <<240, 0, 0, 1>>, <<255, 255, 255, 255>> }

ProbeAnswers == {DnsFailure} \cup {Resolved(ip) : ip \in ProbeIps}

ValidatorInit ==
    /\ target_url_raw = NoUrl
    /\ max_pages = 0
    /\ crawl_depth = 0
    /\ target_url = NoUrl
    /\ base_netloc = ""
    /\ pc = "validator"
    /\ visited_path_query = {}
    /\ to_visit_queue = <<>>
    /\ pages_crawled_count = 0
    /\ queued_path_query_depth = {}
    /\ page_dirs = {}
    /\ files = {}
    /\ manifest = <<>>
    /\ driver_open = FALSE
    /\ exit_code = <<>>
    /\ last = NoCall
    /\ gets = <<>>
    /\ probe = NoProbe
    /\ cwd = NoDirs
    /\ runs = [r \in Runs |-> NotStarted]

\* One call of is_safe_url
CheckUrl ==
    /\ pc = "validator"
    /\ \E url \in ProbeUrls, dns \in ProbeAnswers :
         probe' = [url |-> url, dns |-> dns, called |-> TRUE,
                   result |-> is_safe_url(url, dns)]
    /\ UNCHANGED <<target_url_raw, max_pages, crawl_depth, target_url, base_netloc, pc,
                   visited_path_query, to_visit_queue, pages_crawled_count,
                   queued_path_query_depth, page_dirs, files, manifest, driver_open, exit_code, last,
                   gets, cwd, runs>>

ValidatorNext == CheckUrl

ValidatorSpec == ValidatorInit /\ [][ValidatorNext]_vars

----------------------------------------------------------------------------
(* get_site_output_dir in two runs started at the same time against one host, *)
(* in one working directory                                                  *)

RunDomain == "example.com"

\* The site directories earlier runs against the host may have left
EarlierDirs == {DirName(SanitizeDomain(RunDomain), 0), DirName(SanitizeDomain(RunDomain), 1)}

\* Mutant of makedirs: the directory is created with exist_ok=True
makedirs_exist_ok(dirs, name, os_error) ==
    IF os_error THEN [ok |-> FALSE, dirs |-> dirs]
    ELSE IF name \in DOMAIN dirs THEN [ok |-> TRUE, dirs |-> dirs]
    ELSE [ok |-> TRUE, dirs |-> [d \in DOMAIN dirs \cup {name} |->
                                    IF d \in DOMAIN dirs THEN dirs[d] ELSE {}]]

\* os.makedirs(output_dir): raises FileExistsError when the name exists, or
\* another OSError (os_error); else the directory exists afterwards, empty
makedirs(dirs, name, os_error) ==
    IF os_error \/ name \in DOMAIN dirs THEN [ok |-> FALSE, dirs |-> dirs]
    ELSE [ok |-> TRUE, dirs |-> [d \in DOMAIN dirs \cup {name} |->
                                    IF d \in DOMAIN dirs THEN dirs[d] ELSE {}]]

\* The variables of main(), which these runs leave alone
main_vars == <<target_url_raw, max_pages, crawl_depth, target_url, base_netloc, pc,
               visited_path_query, to_visit_queue, pages_crawled_count,
               queued_path_query_depth, page_dirs, files, manifest, driver_open,
               exit_code, last, gets, probe>>

OutputDirInit ==
    /\ target_url_raw = NoUrl
    /\ max_pages = 0
    /\ crawl_depth = 0
    /\ target_url = NoUrl
    /\ base_netloc = RunDomain
    /\ pc = "get_site_output_dir"
    /\ visited_path_query = {}
    /\ to_visit_queue = <<>>
    /\ pages_crawled_count = 0
    /\ queued_path_query_depth = {}
    /\ page_dirs = {}
    /\ files = {}
    /\ manifest = <<>>
    /\ driver_open = FALSE
    /\ exit_code = <<>>
    /\ last = NoCall
    /\ gets = <<>>
    /\ probe = NoProbe
    /\ \E left \in SUBSET EarlierDirs : cwd = [d \in left |-> {EarlierRun}]
    /\ runs = [r \in Runs |-> NotStarted]

\* Lines 161-163: base_dir, output_dir and count are set
OutputDirStart(r) ==
    /\ runs[r].pc = "not_started"
    /\ runs' = [runs EXCEPT ![r] =
                   [pc |-> "while", base_dir |-> SanitizeDomain(base_netloc),
                    output_dir |-> DirName(SanitizeDomain(base_netloc), 0),
                    count |-> 1, fresh |-> FALSE]]
    /\ UNCHANGED <<main_vars, cwd>>

\* Lines 165-167: os.path.exists(output_dir) is true; the next name is tried
OutputDirTaken(r) ==
    /\ runs[r].pc = "while"
    /\ runs[r].output_dir \in DOMAIN cwd
    /\ runs' = [runs EXCEPT ![r].output_dir = DirName(runs[r].base_dir, runs[r].count),
                            ![r].count = @ + 1]
    /\ UNCHANGED <<main_vars, cwd>>

\* Line 165: os.path.exists(output_dir) is false; the loop ends
OutputDirFree(r) ==
    /\ runs[r].pc = "while"
    /\ runs[r].output_dir \notin DOMAIN cwd
    /\ runs' = [runs EXCEPT ![r].pc = "makedirs"]
    /\ UNCHANGED <<main_vars, cwd>>

\* Lines 169-172: os.makedirs(output_dir) succeeds; the run goes on to crawl
OutputDirCreated(r) ==
    /\ runs[r].pc = "makedirs"
    /\ LET made == makedirs(cwd, runs[r].output_dir, FALSE)
       IN /\ made.ok
          /\ cwd' = made.dirs
          /\ runs' = [runs EXCEPT ![r].pc = "crawl",
                                  ![r].fresh = runs[r].output_dir \notin DOMAIN cwd]
    /\ UNCHANGED main_vars

\* Lines 169-175: os.makedirs(output_dir) raises; sys.exit(1)
OutputDirFailed(r) ==
    /\ runs[r].pc = "makedirs"
    /\ \E os_error \in BOOLEAN :
         LET made == makedirs(cwd, runs[r].output_dir, os_error)
         IN /\ ~made.ok
            /\ cwd' = made.dirs
            /\ runs' = [runs EXCEPT ![r].pc = "exit_1"]
    /\ UNCHANGED main_vars

\* Lines 217-267, 404-407: the run writes page folders and the manifest into
\* its site_dir
WriteIntoSiteDir(r) ==
    /\ runs[r].pc = "crawl"
    /\ cwd' = [cwd EXCEPT ![runs[r].output_dir] = @ \cup {r}]
    /\ runs' = [runs EXCEPT ![r].pc = "done"]
    /\ UNCHANGED main_vars

OutputDirNext ==
    \E r \in Runs :
        \/ OutputDirStart(r)
        \/ OutputDirTaken(r)
        \/ OutputDirFree(r)
        \/ OutputDirCreated(r)
        \/ OutputDirFailed(r)
        \/ WriteIntoSiteDir(r)

OutputDirSpec == OutputDirInit /\ [][OutputDirNext]_vars

----------------------------------------------------------------------------
(* url_to_folder_name on its own: applied to pairs of URLs of one site *)

FolderPaths ==
    { <<>>, <<"/">>, <<"/", "about">>, <<"/", "about", "/">>, <<"/", "about.html">>,
      <<"/", "about.php">>, <<"/", "team", "/", "about">>, <<"/", "a.b">>,
      <<"/", "a_b">>, <<"/", "_about_">>, <<"/", "...">>, <<"/", ".html">>,
      <<"/", "docs">> }

FolderQueries == {"", "page=2", "q=1"}

FolderUrls == {URL("https", "example.com", p, q, "") : p \in FolderPaths, q \in FolderQueries}

FolderBases ==
    { URL("https", "example.com", <<>>, "", ""),
      URL("https", "example.com", <<"/", "docs">>, "", "") }

FolderNameInit ==
    /\ target_url_raw = NoUrl
    /\ max_pages = 0
    /\ crawl_depth = 0
    /\ target_url = NoUrl
    /\ base_netloc = ""
    /\ pc = "url_to_folder_name"
    /\ visited_path_query = {}
    /\ to_visit_queue = <<>>
    /\ pages_crawled_count = 0
    /\ queued_path_query_depth = {}
    /\ page_dirs = {}
    /\ files = {}
    /\ manifest = <<>>
    /\ driver_open = FALSE
    /\ exit_code = <<>>
    /\ last = NoCall
    /\ gets = <<>>
    /\ probe = NoProbe
    /\ cwd = NoDirs
    /\ runs = [r \in Runs |-> NotStarted]

\* url_to_folder_name called, once, on two URLs with the same base URL
NameFolders ==
    /\ pc = "url_to_folder_name"
    /\ ~probe.called
    /\ \E url1 \in FolderUrls, url2 \in FolderUrls, base \in FolderBases :
         probe' = [called |-> TRUE, url1 |-> url1, url2 |-> url2, base |-> base,
                   name1 |-> url_to_folder_name(url1, base),
                   name2 |-> url_to_folder_name(url2, base)]
    /\ UNCHANGED <<target_url_raw, max_pages, crawl_depth, target_url, base_netloc, pc,
                   visited_path_query, to_visit_queue, pages_crawled_count,
                   queued_path_query_depth, page_dirs, files, manifest, driver_open,
                   exit_code, last, gets, cwd, runs>>

FolderNameNext == NameFolders

FolderNameSpec == FolderNameInit /\ [][FolderNameNext]_vars

----------------------------------------------------------------------------
(* is_internal_link on its own: applied to hrefs of every shape *)

LinkSchemes == {"", "http", "https", "mailto", "tel", "javascript", "ftp"}

LinkNetlocs == {"", "example.com", "other.com", "example.com:8080"}

LinkHrefs ==
    {URL(sch, n, p, "", f) : sch \in LinkSchemes, n \in LinkNetlocs,
                             p \in {<<>>, <<"/", "about">>}, f \in {"", "top"}}

LinkBases == {"example.com", "example.com:8080"}

InternalLinkInit ==
    /\ target_url_raw = NoUrl
    /\ max_pages = 0
    /\ crawl_depth = 0
    /\ target_url = NoUrl
    /\ base_netloc \in LinkBases
    /\ pc = "is_internal_link"
    /\ visited_path_query = {}
    /\ to_visit_queue = <<>>
    /\ pages_crawled_count = 0
    /\ queued_path_query_depth = {}
    /\ page_dirs = {}
    /\ files = {}
    /\ manifest = <<>>
    /\ driver_open = FALSE
    /\ exit_code = <<>>
    /\ last = NoCall
    /\ gets = <<>>
    /\ probe = NoProbe
    /\ cwd = NoDirs
    /\ runs = [r \in Runs |-> NotStarted]

\* is_internal_link(href, base_netloc) called once
ClassifyLink ==
    /\ pc = "is_internal_link"
    /\ ~probe.called
    /\ \E href \in LinkHrefs :
         probe' = [called |-> TRUE, href |-> href, base_netloc |-> base_netloc,
                   result |-> is_internal_link(href, base_netloc)]
    /\ UNCHANGED <<target_url_raw, max_pages, crawl_depth, target_url, base_netloc, pc,
                   visited_path_query, to_visit_queue, pages_crawled_count,
                   queued_path_query_depth, page_dirs, files, manifest, driver_open,
                   exit_code, last, gets, cwd, runs>>

InternalLinkNext == ClassifyLink

InternalLinkSpec == InternalLinkInit /\ [][InternalLinkNext]_vars

----------------------------------------------------------------------------
(* Properties *)

FetchFailureKinds == {"unsafe", "timeout", "load_error"}

\* The seed's queue entry
SeedTarget == [url |-> target_url, depth |-> 1]

\* u and v are equal once trailing slashes are stripped from their paths
SameUpToTrailingSlash(u, v) ==
    [u EXCEPT !.path = RStripSlash(@)] = [v EXCEPT !.path = RStripSlash(@)]

\* C1 as stated: in every reachable state, for every configured max_pages, the
\* visited set holds at most max_pages keys.
C1_VisitedWithinMaxPages ==
    Cardinality(visited_path_query) <= max_pages

\* C1 as amended: for every configured max_pages that is not negative, the
\* visited set holds at most max_pages keys in every reachable state.
C1_VisitedWithinNonNegativeMaxPages ==
    max_pages >= 0 => Cardinality(visited_path_query) <= max_pages

\* C1 witness: the budget is used up while targets are still queued.
C1_Witness ==
    /\ pc = "loop"
    /\ max_pages >= 2
    /\ Cardinality(visited_path_query) = max_pages
    /\ to_visit_queue # <<>>

\* C2: a fetch failure (timeout, load error, safety rejection) of one target
\* does not abort the run.
C2_FetchFailureDoesNotAbort ==
    last.kind \in FetchFailureKinds => pc # "crashed"

\* C3 as stated: after the fetch of a target fails, the target's key is in the
\* visited set (and the page count is unchanged).
C3_FailedFetchMarkedVisited ==
    last.kind \in FetchFailureKinds => last.url \in visited_path_query

\* C3 as amended: a fetch failure leaves both the visited set and the page
\* count unchanged, so the failed target's key is not in the visited set.
C3_FailedFetchChangesNeitherVisitedNorCount ==
    [][(last'.n # last.n /\ last'.kind \in FetchFailureKinds)
         => /\ visited_path_query' = visited_path_query
            /\ pages_crawled_count' = pages_crawled_count
            /\ last'.url \notin visited_path_query']_vars

\* C3 witness: a load timed out after at least one page had been crawled;
\* the page count still is the number of pages crawled before.
C3_Witness ==
    /\ last.kind = "timeout"
    /\ last.depth >= 2
    /\ pages_crawled_count >= 1
    /\ last.url \notin visited_path_query

\* C4 as stated: no key is handed to the fetcher more than once in a run.
C4_EachKeyFetchedAtMostOnce ==
    \A i, j \in DOMAIN gets : gets[i].url = gets[j].url => i = j

\* C4 as amended: a key is never handed to the fetcher again after a fetch of
\* it that returned a document; only a key whose document could not be read
\* or parsed can be fetched again.
C4_NoFetchAfterSuccessfulFetch ==
    \A i, j \in DOMAIN gets :
        (i < j /\ gets[i].url = gets[j].url) => gets[i].kind = "parse_error"

\* C4 witness: a crawled key was discovered at two depths and both targets
\* have left the queue, yet it was handed to the fetcher once.
C4_Witness ==
    \E k \in visited_path_query :
        /\ <<k, 2>> \in queued_path_query_depth
        /\ <<k, 3>> \in queued_path_query_depth
        /\ \A i \in DOMAIN to_visit_queue : StripFragment(to_visit_queue[i].url) # k
        /\ Cardinality({i \in DOMAIN gets : gets[i].url = k}) = 1

\* C5: driver.get is invoked on a URL only after is_safe_url accepted that
\* URL, for every target and not only the seed; a URL that has no hostname,
\* does not resolve, or resolves to link-local 169.254.169.254 is never loaded.
C5_FetchOnlyAfterValidation ==
    /\ last.got => last.accepted
    /\ (last.kind # "none" /\ (Hostname(last.url) = "" \/ ~last.dns.ok
                               \/ last.dns = Resolved(LinkLocalIp)))
         => ~last.got

\* C5 witness: a discovered link resolved to 169.254.169.254, was rejected
\* and not loaded.
C5_Witness ==
    /\ last.depth >= 2
    /\ last.dns = Resolved(LinkLocalIp)
    /\ last.kind = "unsafe"
    /\ ~last.got

\* An address of one of the classes the validator is to reject
DisallowedAddress(ip) ==
    \/ is_private(ip) \/ is_loopback(ip) \/ is_reserved(ip)
    \/ is_link_local(ip) \/ is_multicast(ip) \/ is_unspecified(ip)

\* C6: is_safe_url is false when the hostname is missing or resolution fails,
\* false for every private, loopback, reserved, link-local, multicast or
\* unspecified address, and true for every other address.
C6_IsSafeRejectsEveryDisallowedClass ==
    probe.called =>
        (probe.result <=> (/\ Hostname(probe.url) # ""
                           /\ probe.dns.ok
                           /\ ~DisallowedAddress(probe.dns.ip)))

\* C7: every target in the queue other than the seed has the seed's host and
\* an http or https scheme.
C7_QueueHoldsOnlySeedHostTargets ==
    \A i \in DOMAIN to_visit_queue :
        \/ to_visit_queue[i] = SeedTarget
        \/ /\ to_visit_queue[i].url.netloc = base_netloc
           /\ to_visit_queue[i].url.scheme \in {"http", "https"}

\* C8 as stated: the manifest's page list has at most max_pages entries and as
\* many entries as its pages_crawled says.
C8_ManifestListWithinMaxPages ==
    manifest # <<>> =>
        /\ Cardinality(manifest[1].crawled_pages) <= manifest[1].max_pages
        /\ Cardinality(manifest[1].crawled_pages) = manifest[1].pages_crawled

\* C8 as amended: the manifest's page list has as many entries as its
\* pages_crawled says, and at most max_pages entries when max_pages is not
\* negative.
C8_ManifestListMatchesCount ==
    manifest # <<>> =>
        /\ Cardinality(manifest[1].crawled_pages) = manifest[1].pages_crawled
        /\ manifest[1].pages_crawled = pages_crawled_count
        /\ manifest[1].max_pages >= 0
             => Cardinality(manifest[1].crawled_pages) <= manifest[1].max_pages

\* C8 witness: a manifest of a run that used its whole budget of several pages
\* while more targets were queued.
C8_Witness ==
    /\ manifest # <<>>
    /\ manifest[1].max_pages >= 2
    /\ manifest[1].pages_crawled = manifest[1].max_pages
    /\ to_visit_queue # <<>>

C10_SlashVariantsFetchedOnceCombined ==
    \A i, j \in DOMAIN gets :
        SameUpToTrailingSlash(gets[i].url, gets[j].url) => i = j

\* C10 as amended: two links that differ only by a trailing slash have
\* different keys, each of which is crawled at most once: two fetches that
\* returned a document and agree up to trailing slashes are of different keys.
C10_SlashVariantsAreDistinctKeys ==
    \A i, j \in DOMAIN gets :
        (i # j /\ gets[i].kind = "ok" /\ gets[j].kind = "ok"
         /\ SameUpToTrailingSlash(gets[i].url, gets[j].url))
            => gets[i].url # gets[j].url

\* C10 witness: /about and /about/ were both fetched, each returning a
\* document.
C10_Witness ==
    \E i, j \in DOMAIN gets :
        /\ gets[i].kind = "ok" /\ gets[j].kind = "ok"
        /\ gets[i].url = URL("https", "example.com", <<"/", "about">>, "", "")
        /\ gets[j].url = URL("https", "example.com", <<"/", "about", "/">>, "", "")

\* u and v differ at most in their fragment
SameUpToFragment(u, v) == [u EXCEPT !.fragment = ""] = [v EXCEPT !.fragment = ""]

AboutKey == URL("https", "example.com", <<"/", "about">>, "", "")

\* C11: URLs that differ only in their fragment have the same key, and at most
\* one of them is fetched and persisted in a run: no two queued targets that
\* differ only in the fragment have different keys, no two fetches that
\* returned a document are of URLs differing only in the fragment, and no two
\* persisted artifacts are of different URLs differing only in the fragment.
C11_FragmentVariantsCrawledOnce ==
    /\ \A i, j \in DOMAIN to_visit_queue :
           SameUpToFragment(to_visit_queue[i].url, to_visit_queue[j].url)
               => StripFragment(to_visit_queue[i].url) = StripFragment(to_visit_queue[j].url)
    /\ \A i, j \in DOMAIN gets :
           (gets[i].kind = "ok" /\ gets[j].kind = "ok"
            /\ SameUpToFragment(gets[i].url, gets[j].url)) => i = j
    /\ \A f, g \in files : SameUpToFragment(f.url, g.url) => f.url = g.url

\* C11 witness: /about#top was crawled and persisted at depth 2, and the page
\* it returned links to /about, /about/ and /contact: /about/ was enqueued at
\* depth 3, /about was not, and the key of /about was fetched once.
C11_Witness ==
    /\ \E f \in files : f.url = [AboutKey EXCEPT !.fragment = "top"]
    /\ AboutKey \in visited_path_query
    /\ <<[AboutKey EXCEPT !.path = <<"/", "about", "/">>], 3>> \in queued_path_query_depth
    /\ <<AboutKey, 3>> \notin queued_path_query_depth
    /\ Cardinality({i \in DOMAIN gets : gets[i].url = AboutKey}) = 1

\* C12: a target is handed to the fetcher only if, when it is dequeued, its
\* depth is at most crawl_depth and its key is not in the visited set; a
\* dequeued target that fails either test is discarded: only the head of the
\* queue goes, and the visited set, the page count and the fetches made are
\* unchanged.
C12_FetchOnlyWithinDepthAndUnvisited ==
    [][/\ last'.n # last.n
            => /\ pc = "loop"
               /\ to_visit_queue # <<>>
               /\ Current.depth <= crawl_depth
               /\ CurrentKey \notin visited_path_query
               /\ last'.url = CurrentKey
       /\ (/\ pc = "loop"
           /\ to_visit_queue # <<>>
           /\ to_visit_queue' # to_visit_queue
           /\ (Current.depth > crawl_depth \/ CurrentKey \in visited_path_query))
            => /\ to_visit_queue' = Tail(to_visit_queue)
               /\ visited_path_query' = visited_path_query
               /\ pages_crawled_count' = pages_crawled_count
               /\ last' = last
               /\ gets' = gets
               /\ pc' = "loop"]_vars

\* C12 witness: with --depth 0 the seed (depth 1) was dequeued and discarded:
\* the loop is still running, the queue is empty, nothing was fetched.
C12_Witness ==
    /\ pc = "loop"
    /\ crawl_depth = 0
    /\ max_pages >= 1
    /\ to_visit_queue = <<>>
    /\ last.n = 0
    /\ visited_path_query = {}
    /\ pages_crawled_count = 0

\* C13: with --depth 1, once the fetch of the seed (depth 1) has returned a
\* document, exactly one page is crawled and no link found on it is enqueued,
\* whatever links the page has.
C13_DepthOneCrawlsOnlySeed ==
    (crawl_depth = 1 /\ \E i \in DOMAIN gets : gets[i].kind = "ok")
        => /\ pages_crawled_count = 1
           /\ visited_path_query = {target_url}
           /\ to_visit_queue = <<>>
           /\ queued_path_query_depth = {<<target_url, 1>>}
           /\ Len(gets) = 1

\* C13 witness: a run with --depth 1 completed after crawling a seed page that
\* has three links.
C13_Witness ==
    /\ pc = "completed"
    /\ crawl_depth = 1
    /\ pages_crawled_count = 1
    /\ last.kind = "ok"
    /\ last.links = 3

\* C14: the queue is first-in first-out (a step of the loop removes its head
\* and adds only at its end), so the depths of the queued targets and of the
\* successive fetches never decrease, and no fetched target is deeper than a
\* target still in the queue.
C14_FifoDepthsNeverDecrease ==
    /\ [](/\ \A i, j \in DOMAIN to_visit_queue :
                i < j => to_visit_queue[i].depth <= to_visit_queue[j].depth
          /\ \A i, j \in DOMAIN gets : i < j => gets[i].depth <= gets[j].depth
          /\ \A i \in DOMAIN gets, j \in DOMAIN to_visit_queue :
                gets[i].depth <= to_visit_queue[j].depth)
    /\ [][(pc = "loop" /\ to_visit_queue' # to_visit_queue)
            => /\ Len(to_visit_queue') >= Len(to_visit_queue) - 1
               /\ SubSeq(to_visit_queue', 1, Len(to_visit_queue) - 1)
                     = Tail(to_visit_queue)]_vars

\* C14 witness: targets of depth 1, 2 and 3 were fetched and targets of depth
\* 3 are still queued.
C14_Witness ==
    /\ \E i, j, k \in DOMAIN gets :
           gets[i].depth = 1 /\ gets[j].depth = 2 /\ gets[k].depth = 3
    /\ to_visit_queue # <<>>
    /\ pc = "loop"

\* A step of the loop that dequeues a target is possible
DequeueEnabled ==
    ENABLED (SkipVisited \/ SkipDepth \/ CrawlPage \/ ContentFailure \/ UnpackError
             \/ InterruptInFlight)

C16_ExitZeroPastSetup ==
    exit_code # <<>> =>
        IF pc = "setup_failed" THEN exit_code # <<0>> ELSE exit_code = <<0>>

\* C17: once the WebDriver session exists it is quit on every exit path:
\* the session is open exactly while the loop runs, and a run that has ended
\* (completed, interrupted, or crashed on an exception in the loop) has no
\* open session and takes no further step.
C17_DriverQuitOnEveryExit ==
    /\ pc = "loop" => driver_open
    /\ exit_code # <<>> => (~driver_open /\ ~ENABLED Next)
    /\ pc \in {"completed", "interrupted", "crashed", "setup_failed"} => exit_code # <<>>

\* C17 witness: a run ended on the exception path after crawling pages, and
\* the driver is quit.
C17_Witness ==
    /\ pc = "crashed"
    /\ exit_code = <<1>>
    /\ pages_crawled_count >= 1
    /\ ~driver_open

\* The page folder the dequeued target is saved in
CurrentFolder == url_to_folder_name(Current.url, target_url)

\* The artifact `name` of `url` is in `folder` of the file set fs
HasArtifact(fs, folder, name, url) ==
    [folder |-> folder, name |-> name, url |-> url] \in fs

\* C18 as stated: when the write of one artifact of a page fails, the page's
\* remaining artifacts are still written and the crawl continues: a page whose
\* url.txt was written has its css.txt, the last artifact, written too (only
\* the write of copy.txt fails in the model).
C18_RemainingArtifactsWrittenAfterFailure ==
    \A f \in files :
        f.name = "url.txt" => HasArtifact(files, f.folder, "css.txt", f.url)

\* C18 as amended: when the write of one artifact of a page fails, the
\* artifacts before it are written and the remaining ones are not attempted
\* (images.txt and css.txt of a page exist only together with its copy.txt);
\* the page still counts as crawled and the loop continues.
C18_FailedWriteSkipsRemainingArtifacts ==
    /\ [](\A f \in files :
              f.name \in {"images.txt", "css.txt"}
                  => HasArtifact(files, f.folder, "copy.txt", f.url))
    /\ [][(last'.n # last.n /\ last'.save = "copy.txt")
            => /\ \A a \in {"url.txt", "page.html"} :
                      HasArtifact(files', CurrentFolder, a, Current.url)
               /\ \A a \in {"copy.txt", "images.txt", "css.txt"} :
                      ~HasArtifact(files', CurrentFolder, a, Current.url)
               /\ CurrentKey \in visited_path_query'
               /\ pages_crawled_count' = pages_crawled_count + 1
               /\ pc' = "loop"]_vars

\* C18 witness: the save of the seed page failed at copy.txt, links found on
\* it were enqueued, and the next target was fetched; its save failed at
\* copy.txt too and targets are still queued.
C18_Witness ==
    /\ pc = "loop"
    /\ \E f \in files :
          /\ f.name = "url.txt"
          /\ f.url = target_url
          /\ ~HasArtifact(files, f.folder, "copy.txt", f.url)
    /\ last.depth = 2
    /\ last.save = "copy.txt"
    /\ to_visit_queue # <<>>

\* C19: two distinct persisted pages have different folder names, so no
\* page's artifacts overwrite another's: a page is saved in a folder that no
\* page was saved in before, and an artifact once written stays as written.
C19_PagesHaveDistinctFolders ==
    [][/\ (last'.n # last.n /\ last'.save \notin {"not_called", "makedirs"})
            => CurrentFolder \notin page_dirs
       /\ \A f \in files : f \in files']_vars

\* The run has its site directory and goes on to crawl, or has crawled
Proceeds(r) == runs[r].pc \in {"crawl", "done"}

\* C20: two runs started at the same time against one host never use the same
\* site directory: a run that proceeds to crawl has a directory that did not
\* exist when the run created it, no two such runs have the same directory,
\* and no directory is written into by a run other than the one that made it.
C20_ConcurrentRunsOwnDistinctFreshDirs ==
    /\ \A r1, r2 \in Runs :
           (r1 # r2 /\ Proceeds(r1) /\ Proceeds(r2))
               => runs[r1].output_dir # runs[r2].output_dir
    /\ \A r \in Runs :
           Proceeds(r) => /\ runs[r].fresh
                          /\ runs[r].output_dir \in DOMAIN cwd
                          /\ cwd[runs[r].output_dir] \subseteq {r}
    /\ \A d \in DOMAIN cwd : Cardinality(cwd[d]) <= 1

\* C20 witness: both runs found the same name free; one created the
\* directory and wrote its pages into it, the other's os.makedirs failed on
\* the existing name and that run exited.
C20_Witness ==
    \E r1, r2 \in Runs :
        /\ runs[r1].pc = "done"
        /\ runs[r2].pc = "exit_1"
        /\ runs[r1].output_dir = runs[r2].output_dir
        /\ runs[r1].output_dir.count >= 1
        /\ cwd[runs[r1].output_dir] = {r1}

\* C21: canonicalization keeps the query of the seed and of every discovered
\* link: the key of a queued target has the query of the target's URL, the
\* normalized seed has the query of the seed that was given, and the URL
\* fetched for the seed carries that query.
C21_QueryPreservedForSeedAndLinks ==
    /\ \A i \in DOMAIN to_visit_queue :
           StripFragment(to_visit_queue[i].url).query = to_visit_queue[i].url.query
    /\ pc = "loop" => target_url.query = target_url_raw.query
    /\ \A i \in DOMAIN gets :
           gets[i].depth = 1 => gets[i].url.query = target_url_raw.query

\* The folder name before the query suffix is added (lines 185-207)
BaseFolderName(name) == [stem |-> name.stem, url_md5_of |-> name.url_md5_of]

\* C22: if two distinct URLs sanitize to the same base folder name and
\* exactly one of them has a query, url_to_folder_name gives them different
\* folder names.
C22_QuerySuffixSeparatesFolders ==
    (/\ probe.called
     /\ probe.url1 # probe.url2
     /\ BaseFolderName(probe.name1) = BaseFolderName(probe.name2)
     /\ (probe.url1.query = "") # (probe.url2.query = ""))
        => probe.name1 # probe.name2

\* C22 witness: /about.html and /team/about?page=2 both sanitize to "about";
\* the second name carries the hash of the query.
C22_Witness ==
    /\ probe.called
    /\ probe.url1.path = <<"/", "about.html">>
    /\ probe.url1.query = ""
    /\ probe.url2.path = <<"/", "team", "/", "about">>
    /\ probe.url2.query = "page=2"
    /\ probe.name1.stem = "about"
    /\ probe.name2.stem = "about"
    /\ probe.name2.query_md5_of = "page=2"

\* C23: when the document of a page cannot be read or parsed, get_page_content
\* returns the empty collections instead of raising, and the run goes on:
\* the target leaves the queue, nothing is counted or saved, the loop keeps
\* running and the process has not exited.
C23_ParseFailureDoesNotAbort ==
    [][(last'.n # last.n /\ last'.kind = "parse_error")
         => /\ last'.extracted = "empty"
            /\ to_visit_queue' = Tail(to_visit_queue)
            /\ visited_path_query' = visited_path_query
            /\ pages_crawled_count' = pages_crawled_count
            /\ files' = files
            /\ pc' = "loop"
            /\ exit_code' = <<>>
            /\ driver_open']_vars

\* C23 witness: the document of a depth-2 page could not be parsed, and a
\* later target was fetched and returned a document.
C23_Witness ==
    \E i, j \in DOMAIN gets :
        /\ i < j
        /\ gets[i].kind = "parse_error"
        /\ gets[i].depth = 2
        /\ gets[j].kind = "ok"
        /\ gets[j].url # gets[i].url

\* The folder name url_to_folder_name gives the home page
HomeFolder == [stem |-> "home", url_md5_of |-> NoUrl, query_md5_of |-> ""]

\* C24: with --max_pages 1 and --depth 2, a run whose seed fetch returned a
\* document and that completed has crawled exactly one page; the only page
\* folder is the one named "home", holding the five artifacts of the seed when
\* the save succeeded; the manifest, when its write succeeded, says
\* pages_crawled = 1 and status "completed" and lists the seed alone.
C24_BudgetOfOnePersistsHomeOnly ==
    (/\ max_pages = 1
     /\ crawl_depth = 2
     /\ pc = "completed"
     /\ \E i \in DOMAIN gets : gets[i].kind = "ok")
        => /\ pages_crawled_count = 1
           /\ Len(gets) = 1
           /\ page_dirs \subseteq {HomeFolder}
           /\ last.save = "none"
                => /\ page_dirs = {HomeFolder}
                   /\ files = {[folder |-> HomeFolder, name |-> Artifacts[i],
                                 url |-> target_url] : i \in DOMAIN Artifacts}
           /\ manifest # <<>>
                => /\ manifest[1].pages_crawled = 1
                   /\ manifest[1].status = "completed"
                   /\ manifest[1].crawled_pages = {target_url}

\* C24 witness: such a run whose seed page has four links, three of them
\* internal and still queued; the page is saved in "home" and the manifest is
\* written.
C24_Witness ==
    /\ max_pages = 1
    /\ crawl_depth = 2
    /\ pc = "completed"
    /\ last.kind = "ok"
    /\ last.links = 4
    /\ Len(to_visit_queue) = 3
    /\ page_dirs = {HomeFolder}
    /\ last.save = "none"
    /\ manifest # <<>>

\* The (key, depth) pair of a queued target
KeyDepth(t) == <<[t.url EXCEPT !.fragment = ""], t.depth>>

\* The targets a step of the loop added to the queue
Enqueued(before, after) ==
    {after[k] : k \in {n \in DOMAIN after : n >= Len(before)}}

AboutSlashKey == URL("https", "example.com", <<"/", "about", "/">>, "", "")

ContactKey == URL("https", "example.com", <<"/", "contact">>, "", "")

\* C25: no (key, depth) pair is enqueued twice in a run: the queue never
\* holds two targets with the same key and depth, every queued target's pair
\* is in the queued set, and a step of the loop enqueues only pairs that were
\* not in the queued set, each once.
C25_KeyDepthPairEnqueuedOnce ==
    /\ [](/\ \A i, j \in DOMAIN to_visit_queue :
                i # j => KeyDepth(to_visit_queue[i]) # KeyDepth(to_visit_queue[j])
          /\ \A i \in DOMAIN to_visit_queue :
                KeyDepth(to_visit_queue[i]) \in queued_path_query_depth)
    /\ [][(pc = "loop" /\ to_visit_queue # <<>> /\ to_visit_queue' # to_visit_queue)
            => /\ \A t \in Enqueued(to_visit_queue, to_visit_queue') :
                    /\ KeyDepth(t) \notin queued_path_query_depth
                    /\ KeyDepth(t) \in queued_path_query_depth'
               /\ Cardinality({KeyDepth(t) : t \in Enqueued(to_visit_queue, to_visit_queue')})
                    = Len(to_visit_queue') - Len(to_visit_queue) + 1]_vars

\* C25 witness: /about and /about/ were crawled at depth 2 and both pages
\* link to /contact; /contact is queued at depth 3 once.
C25_Witness ==
    /\ crawl_depth = 3
    /\ last.kind = "ok"
    /\ last.url = AboutSlashKey
    /\ last.depth = 2
    /\ last.links = 4
    /\ <<AboutSlashKey, 3>> \in queued_path_query_depth
    /\ Cardinality({i \in DOMAIN to_visit_queue :
                       KeyDepth(to_visit_queue[i]) = <<ContactKey, 3>>}) = 1

\* C26: is_internal_link(href, base_netloc) is false for an empty, mailto: or
\* tel: href, for an href with a scheme other than http and https, and for an
\* href with a host (netloc) that is not base_netloc; it is true for every
\* other href.
C26_InternalLinkClassification ==
    probe.called =>
        (probe.result <=>
            ~(\/ probe.href = NoUrl
              \/ probe.href.scheme \in {"mailto", "tel"}
              \/ (probe.href.scheme # "" /\ probe.href.scheme \notin {"http", "https"})
              \/ (probe.href.netloc # "" /\ probe.href.netloc # probe.base_netloc)))

\* C26 witness: a javascript: href that names the base host was classified
\* as not internal.
C26_Witness ==
    /\ probe.called
    /\ probe.href.scheme = "javascript"
    /\ probe.href.netloc = probe.base_netloc
    /\ ~probe.result

\* C27: in every state of the crawl loop pages_crawled_count is the number of
\* keys in the visited set; the two change only together, by one, when the
\* fetch of a key that is not yet visited returns a document.
C27_CountIsVisitedSize ==
    /\ [](pages_crawled_count = Cardinality(visited_path_query))
    /\ [][(/\ pc = "loop"
           /\ (pages_crawled_count' # pages_crawled_count
                \/ visited_path_query' # visited_path_query))
            => /\ to_visit_queue # <<>>
               /\ CurrentKey \notin visited_path_query
               /\ visited_path_query' = visited_path_query \cup {CurrentKey}
               /\ pages_crawled_count' = pages_crawled_count + 1
               /\ last'.n = last.n + 1
               /\ last'.kind = "ok"]_vars

\* C27 witness: three pages are counted and three keys visited in a run in
\* which a further fetch returned no document.
C27_Witness ==
    /\ pages_crawled_count = 3
    /\ Cardinality(visited_path_query) = 3
    /\ \E i \in DOMAIN gets : gets[i].kind = "parse_error"

\* C28: a target enqueued by link discovery has a depth from 2 to
\* crawl_depth, one more than the depth of the page it was found on; so a
\* dequeued target is deeper than crawl_depth only if it is the seed and
\* crawl_depth is below 1.
C28_DiscoveredDepthsWithinLimit ==
    /\ [](/\ \A i \in DOMAIN to_visit_queue :
                \/ to_visit_queue[i] = SeedTarget
                \/ (2 <= to_visit_queue[i].depth /\ to_visit_queue[i].depth <= crawl_depth)
          /\ \A q \in queued_path_query_depth :
                q = <<target_url, 1>> \/ (2 <= q[2] /\ q[2] <= crawl_depth)
          /\ (pc = "loop" /\ to_visit_queue # <<>>
              /\ BeyondMaxDepth(Current.depth, crawl_depth))
               => (Current = SeedTarget /\ crawl_depth < 1))
    /\ [][(pc = "loop" /\ to_visit_queue # <<>> /\ to_visit_queue' # to_visit_queue)
            => \A t \in Enqueued(to_visit_queue, to_visit_queue') :
                   /\ t.depth = Current.depth + 1
                   /\ last'.url = CurrentKey
                   /\ last'.kind = "ok"]_vars

\* C28 witness: with --depth 3 a page of depth 3 that has links was crawled
\* while targets of depth 3 are queued.
C28_Witness ==
    /\ crawl_depth = 3
    /\ last.kind = "ok"
    /\ last.depth = 3
    /\ last.links = 4
    /\ \E i \in DOMAIN to_visit_queue : to_visit_queue[i].depth = 3

\* C30 as stated: at all times the number of page folders written is at most
\* pages_crawled_count, which is at most max_pages.
C30_FoldersWithinCountWithinMaxPages ==
    pc \in {"loop", "completed", "interrupted", "crashed"}
        => /\ Cardinality(page_dirs) <= pages_crawled_count
           /\ pages_crawled_count <= max_pages

\* C30 as amended: a page is counted and entered in the visited set (the
\* manifest's page list) as soon as its fetch returns a document, whether or
\* not its save succeeds; at all times the number of page folders written is
\* at most pages_crawled_count, which is at most max_pages when max_pages is
\* not negative.
C30_CountedWhetherOrNotSaved ==
    /\ [](/\ Cardinality(page_dirs) <= pages_crawled_count
          /\ max_pages >= 0 => pages_crawled_count <= max_pages
          /\ manifest # <<>>
               => /\ manifest[1].crawled_pages = visited_path_query
                  /\ manifest[1].pages_crawled = pages_crawled_count)
    /\ [][(last'.n # last.n /\ last'.kind = "ok")
            => /\ pages_crawled_count' = pages_crawled_count + 1
               /\ last'.url \in visited_path_query'
               /\ last'.save \in SaveFailures
               /\ last'.save = "makedirs" => page_dirs' = page_dirs]_vars

\* C30 witness: a run completed with two pages counted and listed in its
\* manifest, the last of which could not be saved; fewer folders than pages
\* counted exist.
C30_Witness ==
    /\ pc = "completed"
    /\ manifest # <<>>
    /\ manifest[1].pages_crawled = 2
    /\ last.kind = "ok"
    /\ last.save = "makedirs"
    /\ last.url \in manifest[1].crawled_pages
    /\ Cardinality(page_dirs) < pages_crawled_count

\* main() has ended
Ended == pc \in {"setup_failed", "completed", "interrupted", "crashed"}

\* C29: when every fetch returns, the crawl loop terminates: every run ends,
\* because every iteration removes the head of the queue and adds only
\* targets whose (key, depth) pair was never enqueued before, of which there
\* are finitely many.
C29_CrawlLoopTerminates ==
    /\ <>Ended
    /\ [][(pc = "loop" /\ pc' = "loop")
            => /\ to_visit_queue # <<>>
               /\ SubSeq(to_visit_queue', 1, Len(to_visit_queue) - 1) = Tail(to_visit_queue)
               /\ \A t \in Enqueued(to_visit_queue, to_visit_queue') :
                      /\ KeyDepth(t) \notin queued_path_query_depth
                      /\ t.depth <= crawl_depth]_vars

\* C29 witness: a run over pages that link to each other ended with its queue
\* drained and budget left, after enqueuing targets down to depth 3.
C29_Witness ==
    /\ pc = "completed"
    /\ to_visit_queue = <<>>
    /\ pages_crawled_count < max_pages
    /\ \E q \in queued_path_query_depth : q[2] = 3
    /\ AboutKey \in visited_path_query
    /\ AboutSlashKey \in visited_path_query

====
